---- MODULE Spec2Model ----
(***************************************************************************)
(* Beat-driven animation scheduler of the ASCII beat visualizers.          *)
(*                                                                         *)
(* Part I  : scripts/visualizers/ascii-beats.py (unified visualizer):      *)
(*           main() and demo(), one action per step of main and one        *)
(*           action per iteration of the render loop.                      *)
(* Part II : scripts/visualizers/ascii-beats-insane.py (threaded variant): *)
(*           the audio thread and the render loop of the main thread.      *)
(* Part III: scripts/visualizers/ascii-beats-working.py (working variant): *)
(*           its entry point and the loop of demo().                       *)
(*                                                                         *)
(* Time is counted in units of 1/120 s, the coarsest unit in which every   *)
(* interval of the code is a whole number: 0.5 s = 60, 0.25 s = 30,        *)
(* 0.125 s = 15, 1/30 s = 4, 1/40 s = 3, 0.1 s = 12, 1 s = 120.            *)
(* Intensities are counted in thousandths (0.5 = 500, 1.0 = 1000).         *)
(***************************************************************************)
EXTENDS Integers, Sequences, FiniteSets, TLC

\* ------------------------------------------------------------------ bounds
\* Longest track played with late polls, in time units after the loop starts.
MaxTime == 300
\* Longest track played with every poll on schedule.
LongTime == 1950
\* Number of polls of one run that may come later than frame_sleep.
MaxLate == 1

\* Entries given to the lifetime tracker checked on its own.
MaxEntries == 3
\* Last frame at which the tracker checked on its own is given an entry.
MaxAddFrame == 2
\* Last frame the tracker checked on its own advances to.
MaxSweepFrame == 34

\* Iterations of the render loop of the threaded variant.
MaxFrameT == 2
\* Length of the track of the threaded variant, in units of 1/100 s.
AudioDuration == 3

\* create_fireworks called on its own is given the intensities k / IntensitySteps.
IntensitySteps == 40

\* --------------------------------------------------------------- constants
\* Lifetimes of the entries given to the tracker checked on its own.
Lifetimes == {10, 20, 30}

\* argparse choices of --mode
ModeChoices == {"simple", "standard", "insane"}
\* Values of --mode the model tries: the three choices and two others.
ModeArgs == ModeChoices \cup {"turbo", ""}

\* color_schemes has four entries
NumSchemes == 4

\* Key codes: ord('q'), ord('Q'), Screen.ctrl('c'), and one other key ('x').
KeyQ == 113
KeyShiftQ == 81
KeyCtrlC == 3
KeyOther == 120
\* screen.get_event() returned None
NoEvent == 0
Events == {NoEvent, KeyQ, KeyShiftQ, KeyCtrlC, KeyOther}

\* Values random.random() may return, in thousandths: the model tries the
\* smallest value and one just below 1.
RandomSamples == {0, 999}

\* Extra delay of a late poll: one time unit, or more than two beat intervals.
LateBy == {1, 130}

\* Threaded variant: the onset times librosa may report, in units of 1/100 s.
OnsetChoices == { <<1, 1, 3>>, <<2>> }
\* Threaded variant: the RMS values the track may have, in thousandths.
RmsSamples == {20, 400}

\* main() sleeps one second before opening the screen.
StartupSleep == 120

\* The banner is drawn while less than 0.1 s have passed since the beat.
BannerWindow == 12

\* screen.get_event() returned a MouseEvent, which has no key_code.
MouseClick == -1
\* Everything screen.get_event() may return.
ScreenEvents == Events \cup {MouseClick}

\* The exceptions a tick may raise: one from a drawing call, and the
\* AttributeError of event.key_code on a MouseEvent.
TickErrors == {"Exception", "AttributeError"}

\* Mode configuration of demo().
beat_interval(m) == 60
sub_beat_interval(m) == IF m = "simple" THEN 30 ELSE 15
frame_sleep(m) == IF m = "simple" THEN 4 ELSE 3
max_explosions(m) == IF m = "simple" THEN 20 ELSE IF m = "standard" THEN 40 ELSE 100
explosion_lifetime(m) == IF m = "simple" THEN 30 ELSE 50
\* The periods as 4 and 8.
RotationPeriodHalved(m) == IF m # "simple" THEN 4 ELSE 8
RotationPeriod(m) == IF m # "simple" THEN 8 ELSE 16
SpawnPoints(m) == IF m = "simple" THEN 1 ELSE 3

VARIABLES
    argMode,            \* the --mode string given on the command line
    audio_exists,       \* whether the audio file exists on disk
    pc,                 \* position of the process
    exit_status,        \* process exit status, -1 while running
    out,                \* kinds of message printed so far
    screen_opened,      \* Screen.wrapper has opened the terminal session
    mixer_calls,        \* the pygame calls made so far, in order
    busy,               \* pygame.mixer.music.get_busy()
    mode,
    now,                \* wall clock
    track_len,          \* time after which the track has ended
    lateLeft,           \* late polls still allowed in this run
    start_time,
    current_time,
    last_beat_time,
    last_sub_beat,
    beat_count,
    frame,
    active_explosions,
    current_scheme_idx,
    intensity,
    running,
    beat_fired,         \* the last tick fired a beat
    tick_log,           \* the steps the last tick ran, in order
    updated,            \* the distinct entries whose effect the last tick updated
    exc,                \* the exception being propagated, "none" if none
    err_shown,          \* number of "Error: ..." messages displayed so far
    added,              \* every entry given to the lifetime tracker, in order
    explosions,         \* the list a call of create_fireworks has returned
    \* threaded variant (ascii-beats-insane.py)
    a_pc,               \* position of the audio thread
    a_time,             \* time.time() - start_time of the audio thread
    onset_times,
    current_beat_index,
    beat_queue,
    amplitude_queue

procVars == <<argMode, audio_exists, pc, exit_status, out, screen_opened, mixer_calls,
              busy, mode, now, track_len, lateLeft>>

loopVars == <<start_time, current_time, last_beat_time, last_sub_beat, beat_count,
              frame, active_explosions, current_scheme_idx, intensity, running,
              beat_fired, tick_log, updated>>

audioVars == <<a_pc, a_time, onset_times, current_beat_index, beat_queue,
               amplitude_queue>>

otherParts == <<added, explosions, audioVars>>

errVars == <<exc, err_shown>>

vars == <<procVars, loopVars, otherParts, errVars>>

\* ------------------------------------------------------- pure functions

\* int(intensity * k) for an intensity in thousandths
IntTimes(i, k) == (i * k) \div 1000

Min(a, b) == IF a < b THEN a ELSE b

\* Number of effects create_fireworks returns.
CreateFireworksCount(i, m) ==
    IF m = "simple" THEN Min(IntTimes(i, 3) + 1, 3)
    ELSE IF m = "standard" THEN Min(IntTimes(i, 6) + 2, 6)
    ELSE 2 * Min(IntTimes(i, 12) + 3, 12)

\* The per-beat intensity: 0.7 + random() * 0.3, or 0.5 in simple mode.
NewIntensity(r, m) == IF m # "simple" THEN 700 + (r * 3) \div 10 ELSE 500

\* A beat in every iteration.
BeatElapsedAlways(ct, lbt, m) == TRUE

\* The test passing after half an interval.
BeatElapsedHalf(ct, lbt, m) == 2 * (ct - lbt) >= beat_interval(m)

\* The test with > in place of >=.
BeatElapsedStrict(ct, lbt, m) == ct - lbt > beat_interval(m)

\* The elapsed-interval test of the main beat.
BeatElapsed(ct, lbt, m) == ct - lbt >= beat_interval(m)

\* The beat clock advanced by one interval.
LastBeatByInterval(ct, lbt, m) == lbt + beat_interval(m)

\* last_beat_time = current_time
LastBeatAfterFire(ct, lbt, m) == ct

\* Missed beats caught up: one beat for every interval elapsed.
BeatsCaughtUp(ct, lbt, m) == (ct - lbt) \div beat_interval(m)

\* beat_count += 1
BeatsToAdd(ct, lbt, m) == 1

\* The cap tested with <= in place of <.
HasRoomOffByOne(len, m) == len <= max_explosions(m)

\* The test of the cap before an append, on the length of the list.
HasRoom(len, m) == len < max_explosions(m)

\* Every explosion appended, the oldest entries giving way at the cap.
AppendExplosionsEvicting(list, n, f, m) ==
    LET all == list \o [k \in 1..n |-> [birth |-> f, lifetime |-> explosion_lifetime(m)]]
        over == IF Len(all) > max_explosions(m) THEN Len(all) - max_explosions(m) ELSE 0
    IN  SubSeq(all, over + 1, Len(all))

\* The explosions that fit put in front of the list.
AppendExplosionsAtFront(list, n, f, m) ==
    LET taken == Cardinality({k \in 1..n : HasRoom(Len(list) + k - 1, m)})
    IN  [k \in 1..taken |-> [birth |-> f, lifetime |-> explosion_lifetime(m)]] \o list

\* n explosions offered in turn to a list: the k-th is appended when the list,
\* holding the ones appended before it, is below the cap.
AppendExplosions(list, n, f, m) ==
    LET taken == Cardinality({k \in 1..n : HasRoom(Len(list) + k - 1, m)})
    IN  list \o [k \in 1..taken |-> [birth |-> f, lifetime |-> explosion_lifetime(m)]]

\* The spawn loop of a beat: SpawnPoints(m) calls of create_fireworks.
SpawnOnBeat(list, f, i, m) ==
    AppendExplosions(list, SpawnPoints(m) * CreateFireworksCount(i, m), f, m)

\* The sweep keeping an entry one frame longer.
IsLiveInclusive(e, f) == f - e.birth <= e.lifetime

\* The entry is kept by the sweep at frame f.
IsLive(e, f) == f - e.birth < e.lifetime

\* A sweep that removes nothing.
SweepNothing(list, f) == list

\* The expiry sweep.
Sweep(list, f) == SelectSeq(list, LAMBDA e : IsLive(e, f))

\* The distinct entries of a list.
Entries(list) == {list[k] : k \in 1 .. Len(list)}

\* The explosions updated before the sweep has run.
UpdatedBeforeSweep(list, f) == list

\* The explosions whose effect is reset and updated: the list that the
\* sweep has just assigned to active_explosions.
UpdatedExplosions(list, f) == Sweep(list, f)

\* The rotation on every beat.
NextSchemeEveryBeat(idx, bc, m) == (idx + 1) % NumSchemes

\* The rotation without the modulo.
NextSchemeNoWrap(idx, bc, m) ==
    IF bc % RotationPeriod(m) = 0 THEN idx + 1 ELSE idx

\* The scheme index after a beat that made the count bc.
NextScheme(idx, bc, m) ==
    IF bc % RotationPeriod(m) = 0 THEN (idx + 1) % NumSchemes ELSE idx

\* The key codes that end the loop.
IsQuitEvent(ev) == ev # NoEvent /\ ev \in {KeyQ, KeyShiftQ, KeyCtrlC}

\* The loop condition without the playback test.
LoopConditionNoBusy(r, b) == r

\* The loop condition of demo().
LoopCondition(r, b) == r /\ b

\* The parser without choices.
ArgparseAcceptsAny(a) == TRUE

\* argparse accepts the --mode value.
ArgparseAccepts(a) == a \in ModeChoices

\* VisualizerMode(a) finds a member with that value.
IsEnumValue(a) == a \in {"simple", "standard", "insane"}

\* main() without the test of the file.
FileNeverMissing(exists) == FALSE

\* The os.path.exists test of main().
FileMissing(exists) == ~exists

\* The sub-beat without the test of the mode.
SubBeatElapsedAnyMode(ct, lsb, m) == ct - lsb >= sub_beat_interval(m)

\* The test of the sub-beat.
SubBeatElapsed(ct, lsb, m) == m # "simple" /\ ct - lsb >= sub_beat_interval(m)

\* The test of the screen flash, on the count the beat has made.
FlashOnBeat(bc, m) == m # "simple" /\ bc % 2 = 0

\* The text explosion on every second beat.
TextOnEvenBeat(bc, m) == m # "simple" /\ bc % 2 = 0

\* The test of the text explosion, on the count the beat has made.
TextOnBeat(bc, m) == m # "simple" /\ bc % 4 = 0

\* The test of the beat indicator, on the last_beat_time the tick has left.
BannerShown(ct, lbt) == ct - lbt < BannerWindow

\* The steps of the beat branch.
BeatSteps(bc, m) ==
    <<"beat", "spawn">>
    \o (IF FlashOnBeat(bc, m) THEN <<"flash">> ELSE <<>>)
    \o (IF TextOnBeat(bc, m) THEN <<"text">> ELSE <<>>)

\* The steps of one iteration of the loop body that reaches its end.
TickSteps(fired, bc, subFired, banner, m) ==
    <<"clear">>
    \o (IF fired THEN BeatSteps(bc, m) ELSE <<>>)
    \o (IF subFired THEN <<"sub_beat">> ELSE <<>>)
    \o <<"persistent", "sweep", "transient", "status">>
    \o (IF banner THEN <<"banner">> ELSE <<>>)
    \o <<"refresh", "poll", "frame", "sleep">>

\* The cleanup without the stop of the music.
CleanupCallsNoStop == <<"quit">>

\* The calls of the cleanup: pygame.mixer.music.stop() and pygame.quit().
CleanupCalls == <<"stop", "quit">>

\* The firework classes create_fireworks chooses from in each mode.
firework_types(m) ==
    IF m = "simple" THEN <<"RingFirework">>
    ELSE IF m = "standard" THEN <<"RingFirework", "SerpentFirework", "StarFirework">>
    ELSE <<"RingFirework", "SerpentFirework", "StarFirework", "PalmFirework">>

\* num_fireworks without the min.
NumFireworksUncapped(i, m) ==
    IF m = "simple" THEN IntTimes(i, 3) + 1
    ELSE IF m = "standard" THEN IntTimes(i, 6) + 2
    ELSE IntTimes(i, 12) + 3

\* num_fireworks of create_fireworks: the spawn points of one call.
NumFireworks(i, m) ==
    IF m = "simple" THEN Min(IntTimes(i, 3) + 1, 3)
    ELSE IF m = "standard" THEN Min(IntTimes(i, 6) + 2, 6)
    ELSE Min(IntTimes(i, 12) + 3, 12)

\* random.sample(types, k): k elements of the list at distinct positions, in
\* any order.
RandomSample(types, k) ==
    { [j \in 1 .. k |-> types[f[j]]] :
        f \in {g \in [1 .. k -> 1 .. Len(types)] :
                  \A a, b \in 1 .. k : a # b => g[a] # g[b]} }

\* The classes one spawn point may get: the one class of simple mode, one
\* random.choice in standard mode, random.sample(firework_types, min(2, 4))
\* in insane mode.
KindDraws(m) ==
    IF m = "insane" THEN RandomSample(firework_types(m), Min(2, Len(firework_types(m))))
    ELSE RandomSample(firework_types(m), 1)

\* The list create_fireworks returns when the odd spawn points draw the
\* classes d1 and the even ones the classes d2.
CreateFireworks(i, m, d1, d2) ==
    LET per == Len(d1)
    IN  [j \in 1 .. NumFireworks(i, m) * per |->
            LET point == (j - 1) \div per + 1
                draw == IF point % 2 = 1 THEN d1 ELSE d2
            IN  [kind |-> draw[((j - 1) % per) + 1], point |-> point]]

\* ---------------------------------------------------------------- Init

\* The values of demo()'s local variables while demo() is not running.
NoLoop ==
    /\ start_time = 0
    /\ current_time = 0
    /\ last_beat_time = 0
    /\ last_sub_beat = 0
    /\ beat_count = 0
    /\ frame = 0
    /\ active_explosions = <<>>
    /\ current_scheme_idx = 0
    /\ intensity = 0
    /\ running = FALSE
    /\ beat_fired = FALSE
    /\ tick_log = <<>>
    /\ updated = {}

\* No exception is in flight and no error has been displayed.
NoError ==
    /\ exc = "none"
    /\ err_shown = 0

\* The module state of the threaded variant while it is not running.
NoAudioThread ==
    /\ a_pc = "a_idle"
    /\ a_time = 0
    /\ onset_times = <<>>
    /\ current_beat_index = 0
    /\ beat_queue = <<>>
    /\ amplitude_queue = <<>>

ProcessStart ==
    /\ argMode \in ModeArgs
    /\ audio_exists \in BOOLEAN
    /\ pc = "parse"
    /\ exit_status = -1
    /\ out = {}
    /\ screen_opened = FALSE
    /\ mixer_calls = <<>>
    /\ busy = FALSE
    /\ mode = "none"
    /\ now = 0
    /\ NoLoop
    /\ added = <<>>
    /\ explosions = <<>>
    /\ NoAudioThread
    /\ NoError

\* A short track; some polls may be late.
Init ==
    /\ ProcessStart
    /\ track_len = MaxTime
    /\ lateLeft = MaxLate

\* A long track; every poll is on schedule.
InitLong ==
    /\ ProcessStart
    /\ track_len = LongTime
    /\ lateLeft = 0

\* ------------------------------------------------------------- main()

\* parser.parse_args() and VisualizerMode(args.mode)
ParseArgs ==
    /\ pc = "parse"
    /\ IF ~ArgparseAccepts(argMode)
       THEN /\ out' = out \cup {"usage_error"}
            /\ exit_status' = 2
            /\ pc' = "exited"
            /\ UNCHANGED mode
       ELSE IF ~IsEnumValue(argMode)
       THEN /\ out' = out \cup {"traceback"}
            /\ exit_status' = 1
            /\ pc' = "exited"
            /\ UNCHANGED mode
       ELSE /\ mode' = argMode
            /\ pc' = "check_file"
            /\ UNCHANGED <<exit_status, out>>
    /\ UNCHANGED <<argMode, audio_exists, screen_opened, mixer_calls, busy, now,
                   track_len, lateLeft>>
    /\ UNCHANGED <<loopVars, otherParts>>
    /\ UNCHANGED errVars

\* the os.path.exists test of main(), the banner and the sleep
CheckFile ==
    /\ pc = "check_file"
    /\ IF FileMissing(audio_exists)
       THEN /\ out' = out \cup {"file_error"}
            /\ exit_status' = 1
            /\ pc' = "exited"
            /\ UNCHANGED now
       ELSE /\ out' = out \cup {"banner"}
            /\ now' = now + StartupSleep
            /\ pc' = "wrapper"
            /\ UNCHANGED exit_status
    /\ UNCHANGED <<argMode, audio_exists, screen_opened, mixer_calls, busy, mode,
                   track_len, lateLeft>>
    /\ UNCHANGED <<loopVars, otherParts>>
    /\ UNCHANGED errVars

\* Screen.wrapper enters demo(): the test of the file, the start of playback
\* and the initial values of the loop.
DemoStart ==
    /\ pc = "wrapper"
    /\ screen_opened' = TRUE
    /\ IF ~audio_exists
       THEN /\ out' = out \cup {"screen_file_error"}
            /\ now' = now + 2 * StartupSleep
            /\ pc' = "after_wrapper"
            /\ UNCHANGED <<mixer_calls, busy>>
            /\ UNCHANGED loopVars
       ELSE /\ mixer_calls' = mixer_calls \o <<"init", "load", "play">>
            /\ busy' = TRUE
            /\ frame' = 0
            /\ start_time' = now
            /\ current_time' = now
            /\ beat_count' = 0
            /\ active_explosions' = <<>>
            /\ last_beat_time' = now
            /\ last_sub_beat' = now
            /\ current_scheme_idx' = 0
            /\ running' = TRUE
            /\ intensity' = 500
            /\ beat_fired' = FALSE
            /\ tick_log' = <<>>
            /\ updated' = {}
            /\ pc' = "loop"
            /\ UNCHANGED <<out, now>>
    /\ UNCHANGED <<argMode, audio_exists, exit_status, mode, track_len, lateLeft>>
    /\ UNCHANGED otherParts
    /\ UNCHANGED errVars

\* One iteration of the render loop, from the loop condition to the sleep,
\* in which screen.get_event() returns ev.
TickWith(ev) ==
    /\ pc = "loop"
    /\ LoopCondition(running, busy)
    /\ \E r \in RandomSamples, late \in {0} \cup LateBy :
        LET ct == now
            fired == BeatElapsed(ct, last_beat_time, mode)
            bc == IF fired
                  THEN beat_count + BeatsToAdd(ct, last_beat_time, mode)
                  ELSE beat_count
            inten == IF fired THEN NewIntensity(r, mode) ELSE intensity
            spawned == IF fired
                       THEN SpawnOnBeat(active_explosions, frame, inten, mode)
                       ELSE active_explosions
            subFired == SubBeatElapsed(ct, last_sub_beat, mode)
            lbt == IF fired
                   THEN LastBeatAfterFire(ct, last_beat_time, mode)
                   ELSE last_beat_time
            swept == Sweep(spawned, frame)
        IN  /\ late # 0 => lateLeft > 0
            /\ (~fired \/ mode = "simple") => r = 0
            /\ current_time' = ct
            /\ beat_fired' = fired
            /\ last_beat_time' = lbt
            /\ beat_count' = bc
            /\ current_scheme_idx' =
                  IF fired THEN NextScheme(current_scheme_idx, bc, mode)
                  ELSE current_scheme_idx
            /\ intensity' = inten
            /\ last_sub_beat' = IF subFired THEN ct ELSE last_sub_beat
            /\ active_explosions' = swept
            /\ updated' = Entries(UpdatedExplosions(spawned, frame))
            /\ tick_log' = TickSteps(fired, bc, subFired, BannerShown(ct, lbt), mode)
            /\ running' = IF IsQuitEvent(ev) THEN FALSE ELSE running
            /\ frame' = frame + 1
            /\ now' = now + frame_sleep(mode) + late
            /\ lateLeft' = IF late # 0 THEN lateLeft - 1 ELSE lateLeft
            /\ busy' = IF now' - start_time >= track_len THEN FALSE ELSE busy
    /\ UNCHANGED <<argMode, audio_exists, pc, exit_status, out, screen_opened,
                   mixer_calls, mode, track_len, start_time>>
    /\ UNCHANGED otherParts
    /\ UNCHANGED errVars

\* An iteration whose screen.get_event() returns None or a key.
Tick == \E ev \in Events : TickWith(ev)

\* The loop condition fails: the finally block stops the music and quits
\* pygame, and demo() returns; its local variables are gone.
LoopExit ==
    /\ pc = "loop"
    /\ ~LoopCondition(running, busy)
    /\ mixer_calls' = mixer_calls \o CleanupCalls
    /\ busy' = FALSE
    /\ pc' = "after_wrapper"
    /\ start_time' = 0
    /\ current_time' = 0
    /\ last_beat_time' = 0
    /\ last_sub_beat' = 0
    /\ beat_count' = 0
    /\ frame' = 0
    /\ active_explosions' = <<>>
    /\ current_scheme_idx' = 0
    /\ intensity' = 0
    /\ running' = FALSE
    /\ beat_fired' = FALSE
    /\ tick_log' = <<>>
    /\ updated' = {}
    /\ UNCHANGED <<argMode, audio_exists, exit_status, out, screen_opened, mode, now,
                   track_len, lateLeft>>
    /\ UNCHANGED otherParts
    /\ UNCHANGED errVars

\* An exception leaves the loop body: the finally block stops the music and
\* quits pygame, demo() and Screen.wrapper are unwound, and the exception
\* reaches the handlers of main().
RaiseInLoop(e) ==
    /\ exc' = e
    /\ mixer_calls' = mixer_calls \o CleanupCalls
    /\ busy' = FALSE
    /\ pc' = "main_except"
    /\ start_time' = 0
    /\ current_time' = 0
    /\ last_beat_time' = 0
    /\ last_sub_beat' = 0
    /\ beat_count' = 0
    /\ frame' = 0
    /\ active_explosions' = <<>>
    /\ current_scheme_idx' = 0
    /\ intensity' = 0
    /\ running' = FALSE
    /\ beat_fired' = FALSE
    /\ tick_log' = <<>>
    /\ updated' = {}
    /\ UNCHANGED <<argMode, audio_exists, exit_status, out, screen_opened, mode, now,
                   track_len, lateLeft, err_shown>>
    /\ UNCHANGED otherParts

\* An iteration in which a call of the loop body raises an exception.
TickError ==
    /\ pc = "loop"
    /\ LoopCondition(running, busy)
    /\ RaiseInLoop("Exception")

\* An iteration whose screen.get_event() returns a MouseEvent: the test of
\* event.key_code raises AttributeError.
TickMouseEvent ==
    /\ pc = "loop"
    /\ LoopCondition(running, busy)
    /\ \E ev \in ScreenEvents \ Events : RaiseInLoop("AttributeError")

\* except Exception of main(): the message and the traceback are printed,
\* and main() returns.
HandleError ==
    /\ pc = "main_except"
    /\ out' = out \cup {"error", "traceback"}
    /\ err_shown' = err_shown + 1
    /\ exc' = "none"
    /\ exit_status' = 0
    /\ pc' = "exited"
    /\ UNCHANGED <<argMode, audio_exists, screen_opened, mixer_calls, busy, mode, now,
                   track_len, lateLeft>>
    /\ UNCHANGED <<loopVars, otherParts>>

\* Screen.wrapper returns and main() prints its farewell.
Finish ==
    /\ pc = "after_wrapper"
    /\ out' = out \cup {"thanks"}
    /\ exit_status' = 0
    /\ pc' = "exited"
    /\ UNCHANGED <<argMode, audio_exists, screen_opened, mixer_calls, busy, mode, now,
                   track_len, lateLeft>>
    /\ UNCHANGED <<loopVars, otherParts>>
    /\ UNCHANGED errVars

\* ------------------------------------------------------- environment

\* The track ends.
EndPlayback ==
    /\ pc = "loop"
    /\ busy
    /\ busy' = FALSE
    /\ UNCHANGED <<argMode, audio_exists, pc, exit_status, out, screen_opened,
                   mixer_calls, mode, now, track_len, lateLeft>>
    /\ UNCHANGED <<loopVars, otherParts>>
    /\ UNCHANGED errVars

\* The audio file is removed while main() sleeps.
RemoveFile ==
    /\ pc = "wrapper"
    /\ audio_exists
    /\ audio_exists' = FALSE
    /\ UNCHANGED <<argMode, pc, exit_status, out, screen_opened, mixer_calls, busy, mode,
                   now, track_len, lateLeft>>
    /\ UNCHANGED <<loopVars, otherParts>>
    /\ UNCHANGED errVars

\* ------------------------------------- the lifetime tracker on its own

\* active_explosions = [] at frame 0, outside any run of main().
InitTracker ==
    /\ argMode = ""
    /\ audio_exists = FALSE
    /\ pc = "tracker"
    /\ exit_status = -1
    /\ out = {}
    /\ screen_opened = FALSE
    /\ mixer_calls = <<>>
    /\ busy = FALSE
    /\ mode = "none"
    /\ now = 0
    /\ track_len = 0
    /\ lateLeft = 0
    /\ NoLoop
    /\ added = <<>>
    /\ explosions = <<>>
    /\ NoAudioThread
    /\ NoError

\* active_explosions.append({'effect', 'birth': frame, 'lifetime'})
TrackerAdd ==
    /\ pc = "tracker"
    /\ Len(added) < MaxEntries
    /\ frame <= MaxAddFrame
    /\ \E L \in Lifetimes :
        /\ active_explosions' = Append(active_explosions, [birth |-> frame, lifetime |-> L])
        /\ added' = Append(added, [birth |-> frame, lifetime |-> L])
    /\ UNCHANGED procVars
    /\ UNCHANGED explosions
    /\ UNCHANGED <<start_time, current_time, last_beat_time, last_sub_beat, beat_count,
                   frame, current_scheme_idx, intensity, running, beat_fired,
                   tick_log, updated>>
    /\ UNCHANGED audioVars
    /\ UNCHANGED errVars

\* The sweep of one frame, and frame += 1.
TrackerAdvance ==
    /\ pc = "tracker"
    /\ frame < MaxSweepFrame
    /\ active_explosions' = Sweep(active_explosions, frame)
    /\ frame' = frame + 1
    /\ UNCHANGED procVars
    /\ UNCHANGED <<start_time, current_time, last_beat_time, last_sub_beat, beat_count,
                   current_scheme_idx, intensity, running, beat_fired, tick_log,
                   updated>>
    /\ UNCHANGED otherParts
    /\ UNCHANGED errVars

NextTracker ==
    \/ TrackerAdd
    \/ TrackerAdvance

SpecTracker == InitTracker /\ [][NextTracker]_vars

Next ==
    \/ ParseArgs
    \/ CheckFile
    \/ DemoStart
    \/ Tick
    \/ LoopExit
    \/ Finish
    \/ EndPlayback
    \/ RemoveFile
    \/ TickError
    \/ TickMouseEvent
    \/ HandleError

Spec == Init /\ [][Next]_vars

SpecLong == InitLong /\ [][Next]_vars

\* ------------------------------------------- create_fireworks on its own

\* The intensities given to create_fireworks, from 0 to 1.
IntensityGrid == {(k * 1000) \div IntensitySteps : k \in 0 .. IntensitySteps}

\* A call of create_fireworks(screen, x, y, intensity, mode) outside any run
\* of main().
InitFireworks ==
    /\ argMode = ""
    /\ audio_exists = FALSE
    /\ pc = "fireworks"
    /\ exit_status = -1
    /\ out = {}
    /\ screen_opened = FALSE
    /\ mixer_calls = <<>>
    /\ busy = FALSE
    /\ mode \in ModeChoices
    /\ now = 0
    /\ track_len = 0
    /\ lateLeft = 0
    /\ start_time = 0
    /\ current_time = 0
    /\ last_beat_time = 0
    /\ last_sub_beat = 0
    /\ beat_count = 0
    /\ frame = 0
    /\ active_explosions = <<>>
    /\ current_scheme_idx = 0
    /\ intensity \in IntensityGrid
    /\ running = FALSE
    /\ beat_fired = FALSE
    /\ tick_log = <<>>
    /\ updated = {}
    /\ added = <<>>
    /\ explosions = <<>>
    /\ NoAudioThread
    /\ NoError

\* The body of create_fireworks, to its return.
CreateFireworksCall ==
    /\ pc = "fireworks"
    /\ \E d1, d2 \in KindDraws(mode) :
        explosions' = CreateFireworks(intensity, mode, d1, d2)
    /\ pc' = "fireworks_done"
    /\ UNCHANGED <<argMode, audio_exists, exit_status, out, screen_opened, mixer_calls,
                   busy, mode, now, track_len, lateLeft>>
    /\ UNCHANGED <<loopVars, added, audioVars>>
    /\ UNCHANGED errVars

NextFireworks == CreateFireworksCall

SpecFireworks == InitFireworks /\ [][NextFireworks]_vars

\* =============================== Part II: ascii-beats-insane.py (threaded)
\* Time of the audio thread is counted in units of 1/100 s (its sleep is 1).

\* The intensity of a beat event without the min.
BeatIntensityUnclamped(rms) == rms * 5

\* min(intensity * 5, 1.0) of a beat event, from the RMS value
BeatIntensity(rms) == Min(rms * 5, 1000)

\* num_fireworks of a dequeued beat
ThreadedFireworks(i) == Min(IntTimes(i, 10) + 2, 8)

\* The loop condition of the threaded demo().
ThreadedLoopCondition(r, b) == r

\* queue.Queue() is created without a maxsize: the default, 0, means that
\* the queue has no capacity.
QueueMaxsize == 0

\* Queue.full(): put() waits while this holds.
QueueFull(q) == 0 < QueueMaxsize /\ QueueMaxsize <= Len(q)

\* Queue.get_nowait(): the item returned, the oldest of the queue.
QueueGet(q) == Head(q)

\* The queue after a get that takes the newest item.
QueueAfterGetNewest(q) == SubSeq(q, 1, Len(q) - 1)

\* Queue.get_nowait(): the items left on the queue.
QueueAfterGet(q) == Tail(q)

\* The main thread going back to wait for a beat when a queue is empty.
AfterEmptyQueueWaitForBeat(next) == "t_beats"

\* queue.Empty reaching the handler of the render loop.
AfterEmptyQueueUnhandled(next) == "t_except"

\* Where the main thread goes on when a queue is found empty: empty() ends
\* the drain loop, and queue.Empty is passed over.
AfterEmptyQueue(next) == next

\* The inner-loop test of the audio thread: the next onset is due.
OnsetDue(idx, times, t) == idx < Len(times) /\ t >= times[idx + 1]

\* The process of the threaded variant starts; librosa's result for the file
\* is fixed from the start.
InitThreaded ==
    /\ argMode = ""
    /\ audio_exists \in BOOLEAN
    /\ pc = "t_check"
    /\ exit_status = -1
    /\ out = {}
    /\ screen_opened = FALSE
    /\ mixer_calls = <<>>
    /\ busy = FALSE
    /\ mode = "none"
    /\ now = 0
    /\ track_len = 0
    /\ lateLeft = 0
    /\ NoLoop
    /\ added = <<>>
    /\ explosions = <<>>
    /\ a_pc = "a_idle"
    /\ a_time = 0
    /\ onset_times \in OnsetChoices
    /\ current_beat_index = 0
    /\ beat_queue = <<>>
    /\ amplitude_queue = <<>>
    /\ NoError

unusedByThreaded == <<argMode, mode, now, track_len, lateLeft, start_time, current_time,
                      last_beat_time, last_sub_beat, beat_fired, tick_log, updated, added,
                      explosions, onset_times>>

\* The os.path.exists test of the entry point and the banner.
T_CheckFile ==
    /\ pc = "t_check"
    /\ IF ~audio_exists
       THEN /\ out' = out \cup {"file_error"}
            /\ exit_status' = 1
            /\ pc' = "t_exited"
       ELSE /\ out' = out \cup {"banner"}
            /\ pc' = "t_wrapper"
            /\ UNCHANGED exit_status
    /\ UNCHANGED <<audio_exists, screen_opened, mixer_calls, busy, beat_count, frame,
                   active_explosions, current_scheme_idx, intensity, running,
                   a_pc, a_time, current_beat_index, beat_queue, amplitude_queue>>
    /\ UNCHANGED unusedByThreaded
    /\ UNCHANGED errVars

\* Screen.wrapper enters demo(): the test of the file, the analysis, the start
\* of the audio thread and the initial values of the loop.
T_DemoStart ==
    /\ pc = "t_wrapper"
    /\ screen_opened' = TRUE
    /\ IF ~audio_exists
       THEN /\ out' = out \cup {"screen_file_error"}
            /\ pc' = "t_after_wrapper"
            /\ UNCHANGED <<a_pc, running>>
       ELSE /\ out' = out \cup {"tempo"}
            /\ a_pc' = "a_init"
            /\ running' = TRUE
            /\ pc' = "t_loop"
    /\ beat_count' = 0
    /\ active_explosions' = <<>>
    /\ current_scheme_idx' = 0
    /\ frame' = 0
    /\ UNCHANGED <<audio_exists, exit_status, mixer_calls, busy, intensity, a_time,
                   current_beat_index, beat_queue, amplitude_queue>>
    /\ UNCHANGED unusedByThreaded
    /\ UNCHANGED errVars

\* while running:
T_LoopTest ==
    /\ pc = "t_loop"
    /\ ThreadedLoopCondition(running, busy) => frame < MaxFrameT
    /\ pc' = IF ThreadedLoopCondition(running, busy) THEN "t_beats" ELSE "t_cleanup"
    /\ UNCHANGED <<audio_exists, exit_status, out, screen_opened, mixer_calls, busy,
                   beat_count, frame, active_explosions, current_scheme_idx, intensity,
                   running, a_pc, a_time, current_beat_index, beat_queue,
                   amplitude_queue>>
    /\ UNCHANGED unusedByThreaded
    /\ UNCHANGED errVars

\* One round of "while not beat_queue.empty()": a beat is taken and handled,
\* or the queue is empty and the loop is left.
T_DrainBeat ==
    /\ pc = "t_beats"
    /\ IF beat_queue = <<>>
       THEN /\ pc' = AfterEmptyQueue("t_amps")
            /\ UNCHANGED <<beat_queue, beat_count, intensity, current_scheme_idx,
                           active_explosions>>
       ELSE LET beat == QueueGet(beat_queue)
                bc == beat_count + 1
            IN  /\ beat_queue' = QueueAfterGet(beat_queue)
                /\ beat_count' = bc
                /\ intensity' = beat.intensity
                /\ current_scheme_idx' =
                      IF bc % 8 = 0 THEN (current_scheme_idx + 1) % NumSchemes
                      ELSE current_scheme_idx
                /\ active_explosions' = active_explosions \o
                      [k \in 1 .. 3 * ThreadedFireworks(beat.intensity) |->
                          [birth |-> frame, lifetime |-> 40]]
                /\ pc' = "t_beats"
    /\ UNCHANGED <<audio_exists, exit_status, out, screen_opened, mixer_calls, busy,
                   frame, running, a_pc, a_time, current_beat_index, amplitude_queue>>
    /\ UNCHANGED unusedByThreaded
    /\ UNCHANGED errVars

\* One round of "while not amplitude_queue.empty()".
T_DrainAmp ==
    /\ pc = "t_amps"
    /\ IF amplitude_queue = <<>>
       THEN /\ pc' = AfterEmptyQueue("t_render")
            /\ UNCHANGED amplitude_queue
       ELSE /\ amplitude_queue' = QueueAfterGet(amplitude_queue)
            /\ pc' = "t_amps"
    /\ UNCHANGED <<audio_exists, exit_status, out, screen_opened, mixer_calls, busy,
                   beat_count, frame, active_explosions, current_scheme_idx, intensity,
                   running, a_pc, a_time, current_beat_index, beat_queue>>
    /\ UNCHANGED unusedByThreaded
    /\ UNCHANGED errVars

\* The rest of the iteration: the sweep, the refresh, the quit poll,
\* frame += 1 and the sleep.
T_Render ==
    /\ pc = "t_render"
    /\ \E ev \in Events :
        running' = IF IsQuitEvent(ev) THEN FALSE ELSE running
    /\ active_explosions' = Sweep(active_explosions, frame)
    /\ frame' = frame + 1
    /\ pc' = "t_loop"
    /\ UNCHANGED <<audio_exists, exit_status, out, screen_opened, mixer_calls, busy,
                   beat_count, current_scheme_idx, intensity, a_pc, a_time,
                   current_beat_index, beat_queue, amplitude_queue>>
    /\ UNCHANGED unusedByThreaded
    /\ UNCHANGED errVars

\* After the loop: pygame.mixer.music.stop() and pygame.quit().  stop() raises
\* pygame.error while the mixer is not initialised; the entry point prints it.
T_Cleanup ==
    /\ pc = "t_cleanup"
    /\ IF \E k \in 1 .. Len(mixer_calls) : mixer_calls[k] = "init"
       THEN /\ mixer_calls' = mixer_calls \o CleanupCalls
            /\ busy' = FALSE
            /\ pc' = "t_after_wrapper"
            /\ UNCHANGED <<out, err_shown>>
       ELSE /\ out' = out \cup {"error"}
            /\ err_shown' = err_shown + 1
            /\ pc' = "t_after_wrapper"
            /\ UNCHANGED <<mixer_calls, busy>>
    /\ UNCHANGED <<audio_exists, exit_status, screen_opened, beat_count, frame,
                   active_explosions, current_scheme_idx, intensity, running, a_pc,
                   a_time, current_beat_index, beat_queue, amplitude_queue>>
    /\ UNCHANGED unusedByThreaded
    /\ UNCHANGED exc

\* A call of the loop body raises an exception: while a beat or an amplitude
\* taken from its queue is handled (the beat has been counted), or in the
\* rest of the iteration, where event.key_code of a MouseEvent raises
\* AttributeError.
T_TickError ==
    /\ \/ /\ pc = "t_beats"
          /\ beat_queue # <<>>
          /\ beat_queue' = QueueAfterGet(beat_queue)
          /\ beat_count' = beat_count + 1
          /\ UNCHANGED amplitude_queue
       \/ /\ pc = "t_amps"
          /\ amplitude_queue # <<>>
          /\ amplitude_queue' = QueueAfterGet(amplitude_queue)
          /\ UNCHANGED <<beat_queue, beat_count>>
       \/ /\ pc = "t_render"
          /\ UNCHANGED <<beat_queue, beat_count, amplitude_queue>>
    /\ \E e \in TickErrors :
        /\ e = "AttributeError" => pc = "t_render"
        /\ exc' = e
    /\ pc' = "t_except"
    /\ UNCHANGED <<audio_exists, exit_status, out, screen_opened, mixer_calls, busy,
                   frame, active_explosions, current_scheme_idx, intensity,
                   running, a_pc, a_time, current_beat_index, err_shown>>
    /\ UNCHANGED unusedByThreaded

\* except Exception of demo(): the message is drawn on the screen, and after
\* two seconds demo() goes on to its cleanup.
T_HandleError ==
    /\ pc = "t_except"
    /\ out' = out \cup {"error_on_screen"}
    /\ err_shown' = err_shown + 1
    /\ exc' = "none"
    /\ pc' = "t_cleanup"
    /\ UNCHANGED <<audio_exists, exit_status, screen_opened, mixer_calls, busy,
                   beat_count, frame, active_explosions, current_scheme_idx, intensity,
                   running, a_pc, a_time, current_beat_index, beat_queue,
                   amplitude_queue>>
    /\ UNCHANGED unusedByThreaded

\* Screen.wrapper has returned or raised; the process ends, and with it the
\* daemon thread.
T_Finish ==
    /\ pc = "t_after_wrapper"
    /\ exit_status' = 0
    /\ pc' = "t_exited"
    /\ UNCHANGED <<audio_exists, out, screen_opened, mixer_calls, busy, beat_count,
                   frame, active_explosions, current_scheme_idx, intensity, running,
                   a_pc, a_time, current_beat_index, beat_queue, amplitude_queue>>
    /\ UNCHANGED unusedByThreaded
    /\ UNCHANGED errVars

mainThreadVars == <<audio_exists, pc, exit_status, out, screen_opened, beat_count,
                    frame, active_explosions, current_scheme_idx, intensity, running>>

MixerQuit == \E k \in 1 .. Len(mixer_calls) : mixer_calls[k] = "quit"

\* pygame.mixer.init(...)
A_Init ==
    /\ a_pc = "a_init"
    /\ pc # "t_exited"
    /\ mixer_calls' = Append(mixer_calls, "init")
    /\ a_pc' = "a_play"
    /\ UNCHANGED <<busy, a_time, current_beat_index, beat_queue, amplitude_queue>>
    /\ UNCHANGED mainThreadVars
    /\ UNCHANGED unusedByThreaded
    /\ UNCHANGED errVars

\* music.load, music.play and start_time = time.time()
A_Play ==
    /\ a_pc = "a_play"
    /\ pc # "t_exited"
    /\ IF MixerQuit
       THEN /\ a_pc' = "a_dead"
            /\ UNCHANGED <<mixer_calls, busy>>
       ELSE /\ mixer_calls' = mixer_calls \o <<"load", "play">>
            /\ busy' = TRUE
            /\ a_pc' = "a_loop"
    /\ UNCHANGED <<a_time, current_beat_index, beat_queue, amplitude_queue>>
    /\ UNCHANGED mainThreadVars
    /\ UNCHANGED unusedByThreaded
    /\ UNCHANGED errVars

\* while pygame.mixer.music.get_busy(): current_time = time.time() - start_time
A_LoopTest ==
    /\ a_pc = "a_loop"
    /\ pc # "t_exited"
    /\ a_pc' = IF MixerQuit THEN "a_dead" ELSE IF busy THEN "a_beats" ELSE "a_done"
    /\ UNCHANGED <<mixer_calls, busy, a_time, current_beat_index, beat_queue,
                   amplitude_queue>>
    /\ UNCHANGED mainThreadVars
    /\ UNCHANGED unusedByThreaded
    /\ UNCHANGED errVars

\* One round of "while current_beat_index < len(onset_times)".
A_Beat ==
    /\ a_pc = "a_beats"
    /\ pc # "t_exited"
    /\ IF OnsetDue(current_beat_index, onset_times, a_time)
       THEN \E rms \in RmsSamples :
            /\ ~QueueFull(beat_queue)
            /\ beat_queue' = Append(beat_queue,
                   [index |-> current_beat_index, intensity |-> BeatIntensity(rms)])
            /\ current_beat_index' = current_beat_index + 1
            /\ a_pc' = "a_beats"
       ELSE /\ a_pc' = "a_amp"
            /\ UNCHANGED <<beat_queue, current_beat_index>>
    /\ UNCHANGED <<mixer_calls, busy, a_time, amplitude_queue>>
    /\ UNCHANGED mainThreadVars
    /\ UNCHANGED unusedByThreaded
    /\ UNCHANGED errVars

\* The amplitude update and time.sleep(0.01); the track ends once its
\* duration has passed.
A_Amp ==
    /\ a_pc = "a_amp"
    /\ pc # "t_exited"
    /\ IF a_time < AudioDuration
       THEN \E rms \in RmsSamples :
            /\ ~QueueFull(amplitude_queue)
            /\ amplitude_queue' =
                  Append(amplitude_queue, [value |-> rms, time |-> a_time])
       ELSE UNCHANGED amplitude_queue
    /\ \E d \in {1, 2} : a_time' = a_time + d
    /\ busy' = IF a_time' > AudioDuration THEN FALSE ELSE busy
    /\ a_pc' = "a_loop"
    /\ UNCHANGED <<mixer_calls, current_beat_index, beat_queue>>
    /\ UNCHANGED mainThreadVars
    /\ UNCHANGED unusedByThreaded
    /\ UNCHANGED errVars

\* The audio file is removed before demo() tests it.
T_RemoveFile ==
    /\ pc = "t_wrapper"
    /\ audio_exists
    /\ audio_exists' = FALSE
    /\ UNCHANGED <<pc, exit_status, out, screen_opened, mixer_calls, busy, beat_count,
                   frame, active_explosions, current_scheme_idx, intensity, running,
                   a_pc, a_time, current_beat_index, beat_queue, amplitude_queue>>
    /\ UNCHANGED unusedByThreaded
    /\ UNCHANGED errVars

NextThreaded ==
    \/ T_CheckFile
    \/ T_DemoStart
    \/ T_LoopTest
    \/ T_DrainBeat
    \/ T_DrainAmp
    \/ T_Render
    \/ T_Cleanup
    \/ T_Finish
    \/ T_RemoveFile
    \/ T_TickError
    \/ T_HandleError
    \/ A_Init
    \/ A_Play
    \/ A_LoopTest
    \/ A_Beat
    \/ A_Amp

SpecThreaded == InitThreaded /\ [][NextThreaded]_vars

\* The main thread is scheduled again and again: a step of its iteration
\* that stays possible is taken.  Nothing is assumed of the audio thread.
MainThreadRuns ==
    /\ WF_vars(T_DrainBeat)
    /\ WF_vars(T_DrainAmp)
    /\ WF_vars(T_Render)

SpecThreadedFair == SpecThreaded /\ MainThreadRuns

\* ========================== Part III: ascii-beats-working.py (working variant)
\* Time is counted in units of 1/120 s, as in Part I.

\* beat_interval = 0.5, sub_beat_interval = 0.125, time.sleep(0.025)
W_beat_interval == 60
W_sub_beat_interval == 15
W_frame_sleep == 3

\* intensity = 0.8 + random.random() * 0.2
W_NewIntensity(r) == 800 + (r * 2) \div 10

\* num_fireworks = int(intensity * 12)
W_NumFireworks(i) == IntTimes(i, 12)

\* The names of the list literal of firework classes, as they are spelt.
W_firework_type_names ==
    <<"RingFirework", "SerpentFireework", "StarFirework", "PalmFirework">>

\* The firework classes the module imports.
W_imported ==
    {"RingFirework", "SerpentFirework", "StarFirework", "PalmFirework", "Rain",
     "DropScreen"}

\* Evaluating the list literal raises NameError: one of its names is not
\* bound.
W_ListRaisesNameError ==
    \E k \in 1 .. Len(W_firework_type_names) : W_firework_type_names[k] \notin W_imported

\* The process of the working variant starts.
InitWorking ==
    /\ argMode = ""
    /\ audio_exists \in BOOLEAN
    /\ pc = "w_check"
    /\ exit_status = -1
    /\ out = {}
    /\ screen_opened = FALSE
    /\ mixer_calls = <<>>
    /\ busy = FALSE
    /\ mode = "none"
    /\ now = 0
    /\ track_len = MaxTime
    /\ lateLeft = MaxLate
    /\ NoLoop
    /\ added = <<>>
    /\ explosions = <<>>
    /\ NoAudioThread
    /\ NoError

\* The os.path.exists test of the entry point, the banner and the sleep.
W_CheckFile ==
    /\ pc = "w_check"
    /\ IF ~audio_exists
       THEN /\ out' = out \cup {"file_error"}
            /\ exit_status' = 1
            /\ pc' = "w_exited"
            /\ UNCHANGED now
       ELSE /\ out' = out \cup {"banner"}
            /\ now' = now + StartupSleep
            /\ pc' = "w_wrapper"
            /\ UNCHANGED exit_status
    /\ UNCHANGED <<argMode, audio_exists, screen_opened, mixer_calls, busy, mode,
                   track_len, lateLeft>>
    /\ UNCHANGED <<loopVars, otherParts>>
    /\ UNCHANGED errVars

\* The audio file is removed while the entry point sleeps.
W_RemoveFile ==
    /\ pc = "w_wrapper"
    /\ audio_exists
    /\ audio_exists' = FALSE
    /\ UNCHANGED <<argMode, pc, exit_status, out, screen_opened, mixer_calls, busy, mode,
                   now, track_len, lateLeft>>
    /\ UNCHANGED <<loopVars, otherParts>>
    /\ UNCHANGED errVars

\* Screen.wrapper enters demo(): the test of the file, the start of playback
\* and the initial values of the loop.
W_DemoStart ==
    /\ pc = "w_wrapper"
    /\ screen_opened' = TRUE
    /\ IF ~audio_exists
       THEN /\ out' = out \cup {"screen_file_error"}
            /\ now' = now + 2 * StartupSleep
            /\ pc' = "w_after_wrapper"
            /\ UNCHANGED <<mixer_calls, busy>>
            /\ UNCHANGED loopVars
       ELSE /\ mixer_calls' = mixer_calls \o <<"init", "load", "play">>
            /\ busy' = TRUE
            /\ frame' = 0
            /\ start_time' = now
            /\ current_time' = now
            /\ beat_count' = 0
            /\ active_explosions' = <<>>
            /\ last_beat_time' = now
            /\ last_sub_beat' = now
            /\ current_scheme_idx' = 0
            /\ running' = TRUE
            /\ intensity' = 500
            /\ beat_fired' = FALSE
            /\ tick_log' = <<>>
            /\ updated' = {}
            /\ pc' = "w_loop"
            /\ UNCHANGED <<out, now>>
    /\ UNCHANGED <<argMode, audio_exists, exit_status, mode, track_len, lateLeft>>
    /\ UNCHANGED otherParts
    /\ UNCHANGED errVars

\* An exception leaves demo(): nothing of demo() catches it and its cleanup
\* is after the loop, so the music is not stopped; Screen.wrapper is unwound
\* and the exception reaches the handlers of the entry point.
W_Raise(e) ==
    /\ exc' = e
    /\ pc' = "w_except"
    /\ start_time' = 0
    /\ current_time' = 0
    /\ last_beat_time' = 0
    /\ last_sub_beat' = 0
    /\ beat_count' = 0
    /\ frame' = 0
    /\ active_explosions' = <<>>
    /\ current_scheme_idx' = 0
    /\ intensity' = 0
    /\ running' = FALSE
    /\ beat_fired' = FALSE
    /\ UNCHANGED <<now, lateLeft, busy, tick_log, updated>>

\* One iteration of the loop of the working variant, in which
\* screen.get_event() returns ev: it reaches its sleep, or it raises NameError
\* at the list of firework classes of the first spawn point of a beat, or
\* AttributeError at event.key_code of a MouseEvent.
W_TickWith(ev) ==
    /\ pc = "w_loop"
    /\ LoopCondition(running, busy)
    /\ \E r \in RandomSamples, late \in {0} \cup LateBy :
        LET ct == now
            fired == ct - last_beat_time >= W_beat_interval
            bc == IF fired THEN beat_count + 1 ELSE beat_count
            inten == IF fired THEN W_NewIntensity(r) ELSE intensity
            num == IF fired THEN W_NumFireworks(inten) ELSE 0
            spawned == active_explosions \o
                          [k \in 1 .. 2 * num |-> [birth |-> frame, lifetime |-> 50]]
            subFired == ct - last_sub_beat >= W_sub_beat_interval
        IN  /\ late # 0 => lateLeft > 0
            /\ ~fired => r = 0
            /\ IF num >= 1 /\ W_ListRaisesNameError
               THEN W_Raise("NameError")
               ELSE IF ev \notin Events
               THEN W_Raise("AttributeError")
               ELSE /\ current_time' = ct
                    /\ beat_fired' = fired
                    /\ last_beat_time' = IF fired THEN ct ELSE last_beat_time
                    /\ beat_count' = bc
                    /\ current_scheme_idx' =
                          IF fired /\ bc % 4 = 0
                          THEN (current_scheme_idx + 1) % NumSchemes
                          ELSE current_scheme_idx
                    /\ intensity' = inten
                    /\ last_sub_beat' = IF subFired THEN ct ELSE last_sub_beat
                    /\ active_explosions' = Sweep(spawned, frame)
                    /\ running' = IF IsQuitEvent(ev) THEN FALSE ELSE running
                    /\ frame' = frame + 1
                    /\ now' = now + W_frame_sleep + late
                    /\ lateLeft' = IF late # 0 THEN lateLeft - 1 ELSE lateLeft
                    /\ busy' = IF now' - start_time >= track_len THEN FALSE ELSE busy
                    /\ UNCHANGED <<pc, exc, start_time, tick_log, updated>>
    /\ UNCHANGED <<argMode, audio_exists, exit_status, out, screen_opened,
                   mixer_calls, mode, track_len, err_shown>>
    /\ UNCHANGED otherParts

W_Tick == \E ev \in ScreenEvents : W_TickWith(ev)

\* The loop condition fails: music.stop() and pygame.quit() after the loop,
\* and demo() returns.
W_LoopExit ==
    /\ pc = "w_loop"
    /\ ~LoopCondition(running, busy)
    /\ mixer_calls' = mixer_calls \o CleanupCalls
    /\ busy' = FALSE
    /\ pc' = "w_after_wrapper"
    /\ start_time' = 0
    /\ current_time' = 0
    /\ last_beat_time' = 0
    /\ last_sub_beat' = 0
    /\ beat_count' = 0
    /\ frame' = 0
    /\ active_explosions' = <<>>
    /\ current_scheme_idx' = 0
    /\ intensity' = 0
    /\ running' = FALSE
    /\ beat_fired' = FALSE
    /\ UNCHANGED <<argMode, audio_exists, exit_status, out, screen_opened, mode, now,
                   track_len, lateLeft, tick_log, updated>>
    /\ UNCHANGED otherParts
    /\ UNCHANGED errVars

\* except Exception of the entry point: the message is printed and the
\* process ends, and the playback with it.
W_HandleError ==
    /\ pc = "w_except"
    /\ out' = out \cup {"error"}
    /\ err_shown' = err_shown + 1
    /\ exc' = "none"
    /\ exit_status' = 0
    /\ busy' = FALSE
    /\ pc' = "w_exited"
    /\ UNCHANGED <<argMode, audio_exists, screen_opened, mixer_calls, mode, now,
                   track_len, lateLeft>>
    /\ UNCHANGED <<loopVars, otherParts>>

\* Screen.wrapper returns and the entry point prints its farewell.
W_Finish ==
    /\ pc = "w_after_wrapper"
    /\ out' = out \cup {"thanks"}
    /\ exit_status' = 0
    /\ pc' = "w_exited"
    /\ UNCHANGED <<argMode, audio_exists, screen_opened, mixer_calls, busy, mode, now,
                   track_len, lateLeft>>
    /\ UNCHANGED <<loopVars, otherParts>>
    /\ UNCHANGED errVars

\* The track ends.
W_EndPlayback ==
    /\ pc = "w_loop"
    /\ busy
    /\ busy' = FALSE
    /\ UNCHANGED <<argMode, audio_exists, pc, exit_status, out, screen_opened,
                   mixer_calls, mode, now, track_len, lateLeft>>
    /\ UNCHANGED <<loopVars, otherParts>>
    /\ UNCHANGED errVars

NextWorking ==
    \/ W_CheckFile
    \/ W_RemoveFile
    \/ W_DemoStart
    \/ W_Tick
    \/ W_LoopExit
    \/ W_HandleError
    \/ W_Finish
    \/ W_EndPlayback

SpecWorking == InitWorking /\ [][NextWorking]_vars

\* ================================================ both variants together

\* A short track; every poll is on schedule.
InitOnSchedule ==
    /\ ProcessStart
    /\ track_len = MaxTime
    /\ lateLeft = 0

\* A run of either program.
InitBoth == InitOnSchedule \/ InitThreaded

NextBoth == Next \/ NextThreaded

SpecBoth == InitBoth /\ [][NextBoth]_vars

\* ================================================================ claims

InLoop == pc = "loop"

\* A step of the render loop that completes one iteration.
TickStep == InLoop /\ pc' = "loop" /\ frame' = frame + 1

\* C1: in every mode the number of entries of active_explosions never
\* exceeds the mode's max_explosions (20, 40, 100).
C1_CapNeverExceeded ==
    InLoop =>
        /\ mode = "simple" => Len(active_explosions) <= 20
        /\ mode = "standard" => Len(active_explosions) <= 40
        /\ mode = "insane" => Len(active_explosions) <= 100

C1_Witness ==
    \/ InLoop /\ mode = "standard" /\ Len(active_explosions) = 40 /\ beat_count >= 3
    \/ InLoop /\ mode = "insane" /\ Len(active_explosions) = 100 /\ beat_count >= 2

\* C2: an entry added at frame b with lifetime L is in the post-sweep list of
\* every frame b .. b+L-1 and in none from b+L on.  In a state with frame = f
\* the list holds the entries added at f, not swept yet, and the post-sweep
\* list of frame f-1.
C2_LiveExactlyForLifetime ==
    pc = "tracker" =>
        active_explosions =
            SelectSeq(added, LAMBDA e :
                \/ e.birth = frame
                \/ (e.birth <= frame - 1 /\ frame - 1 <= e.birth + e.lifetime - 1))

C2_Witness ==
    /\ pc = "tracker"
    /\ added = << [birth |-> 0, lifetime |-> 10], [birth |-> 0, lifetime |-> 20],
                  [birth |-> 0, lifetime |-> 30] >>
    /\ frame = 26
    /\ active_explosions = << [birth |-> 0, lifetime |-> 30] >>

\* C3: in the loop beat_count never decreases; an iteration whose
\* elapsed-interval test succeeds adds exactly 1 to it, however many
\* intervals have elapsed, and any other iteration adds nothing.
C3_OneBeatPerPoll ==
    [][ (InLoop /\ pc' = "loop") =>
          /\ beat_count' >= beat_count
          /\ beat_count' <= beat_count + 1
          /\ TickStep => (beat_count' = beat_count + 1 <=> now - last_beat_time >= 60)
          /\ ~TickStep => beat_count' = beat_count ]_vars

\* The first beat fires at a poll that comes two intervals or more after the
\* start, and the count is 1.
C3_Witness ==
    /\ InLoop
    /\ beat_fired
    /\ beat_count = 1
    /\ current_time - start_time >= 2 * 60

\* C4: current_scheme_idx stays in 0 .. len(color_schemes)-1; it changes only
\* in an iteration that fires a beat whose new count is a multiple of the
\* mode's rotation period, and then to (idx + 1) mod 4.
C4_SchemeInRange == InLoop => current_scheme_idx \in 0 .. 3

C4_SchemeChange ==
    (InLoop /\ pc' = "loop" /\ current_scheme_idx' # current_scheme_idx) =>
        /\ TickStep
        /\ now - last_beat_time >= 60
        /\ beat_count' = beat_count + 1
        /\ beat_count' % RotationPeriod(mode) = 0
        /\ current_scheme_idx' = (current_scheme_idx + 1) % 4

C4_SchemeRotation == [] C4_SchemeInRange /\ [][C4_SchemeChange]_vars

\* The index has wrapped from the last scheme to the first.
C4_Witness ==
    InLoop /\ beat_fired /\ beat_count = 32 /\ current_scheme_idx = 0 /\ mode = "standard"

\* C5 as stated: the scheme rotates every 4 or every 8 beats in each mode.
C5_PeriodFourOrEight ==
    InLoop =>
        \/ current_scheme_idx = (beat_count \div 4) % 4
        \/ current_scheme_idx = (beat_count \div 8) % 4

\* C5 as amended: the scheme rotates every 8 beats in standard and insane
\* mode and every 16 beats in simple mode.
C5_PeriodEightOrSixteen ==
    InLoop =>
        /\ mode \in {"standard", "insane"} =>
               current_scheme_idx = (beat_count \div 8) % 4
        /\ mode = "simple" => current_scheme_idx = (beat_count \div 16) % 4

C5_Witness ==
    InLoop /\ mode = "simple" /\ beat_count = 16 /\ current_scheme_idx = 1

\* C6: simple mode, every poll on schedule (the poll of iteration k at
\* start + k/30 s): after the poll at 2.0 s beat_count is 4.
C6_FourBeatsInTwoSeconds ==
    ( /\ InLoop
      /\ mode = "simple"
      /\ frame >= 1
      /\ current_time - start_time = (frame - 1) * 4
      /\ current_time - start_time = 240 )
    => beat_count = 4

C6_Witness ==
    InLoop /\ mode = "simple" /\ frame = 61 /\ current_time - start_time = 240
        /\ beat_count = 4

\* C7: a --mode value outside the three choices is rejected by the argument
\* parser (exit status 2) before the screen is opened or the mixer is used;
\* only the three modes reach the loop.
C7_BadModeRejected ==
    /\ argMode \notin {"simple", "standard", "insane"} =>
          /\ pc \in {"parse", "exited"}
          /\ ~screen_opened
          /\ mixer_calls = <<>>
          /\ ~busy
          /\ pc = "exited" => (exit_status = 2 /\ "usage_error" \in out)
    /\ pc \in {"wrapper", "loop", "after_wrapper"} =>
          (mode = argMode /\ mode \in {"simple", "standard", "insane"})

C7_Witness ==
    pc = "exited" /\ argMode = "turbo" /\ exit_status = 2 /\ ~screen_opened

\* C8: when the audio file does not exist at the test of main(), the process
\* prints the error and exits with status 1; the screen is never opened and
\* playback never started.
C8_MissingFileState ==
    "file_error" \in out =>
        /\ pc = "exited"
        /\ exit_status = 1
        /\ ~screen_opened
        /\ mixer_calls = <<>>
        /\ ~busy

C8_MissingFileStep ==
    (pc = "check_file" /\ ~audio_exists /\ pc' # pc) =>
        (pc' = "exited" /\ "file_error" \in out' /\ exit_status' = 1)

C8_MissingFileExits == [] C8_MissingFileState /\ [][C8_MissingFileStep]_vars

C8_Witness ==
    pc = "exited" /\ "file_error" \in out /\ exit_status = 1 /\ ~audio_exists

\* C9: once a quit key has been seen or playback is no longer busy, no
\* further iteration starts: the only step of the loop is the one that leaves
\* it, which stops the music and quits pygame, and that step can be taken.
C9_Stopped == InLoop /\ (~running \/ ~busy)

C9_NoTickAfterStop ==
    (C9_Stopped /\ <<pc, loopVars, mixer_calls>>' # <<pc, loopVars, mixer_calls>>) =>
        /\ pc' = "after_wrapper"
        /\ mixer_calls' = mixer_calls \o <<"stop", "quit">>

C9_CleanedUp ==
    (pc \in {"after_wrapper", "exited"} /\ mixer_calls # <<>>) =>
        mixer_calls = <<"init", "load", "play", "stop", "quit">>

C9_LoopEnds ==
    /\ [] C9_CleanedUp
    /\ [] (C9_Stopped => ENABLED LoopExit)
    /\ [][C9_NoTickAfterStop]_vars

\* The loop has been left and the cleanup has run.
C9_Witness ==
    pc = "after_wrapper" /\ mixer_calls = <<"init", "load", "play", "stop", "quit">>


\* C10 as stated: in the threaded variant the end of playback alone ends the
\* render loop: once the audio thread has seen get_busy() false and returned
\* and an iteration has emptied both queues, the next loop test leaves the
\* loop.
C10_LoopEndsWithPlayback ==
    [][ ( /\ pc = "t_loop"
          /\ a_pc = "a_done"
          /\ frame >= 1
          /\ beat_queue = <<>>
          /\ amplitude_queue = <<>>
          /\ pc' # pc )
        => pc' = "t_cleanup" ]_vars

\* Positions inside the render loop of either variant.
LoopPcs == {"loop", "t_loop", "t_beats", "t_amps", "t_render"}

\* The process has finished.
Ended == pc \in {"exited", "t_exited"}

\* music.play() has been called.
PlaybackStarted == \E k \in 1 .. Len(mixer_calls) : mixer_calls[k] = "play"

\* music.stop() has been called.
MusicStopped == \E k \in 1 .. Len(mixer_calls) : mixer_calls[k] = "stop"

\* C11: an exception raised by a tick after playback has started is caught
\* (it is in flight only at a handler, never when the process has ended), the
\* handler displays it once, no position inside the loop is reached again,
\* and when the process has ended the error has been displayed exactly once
\* and music.stop() has been called.
C11_Caught ==
    /\ exc # "none" => pc \in {"main_except", "t_except"}
    /\ pc = "main_except" => (exc # "none" /\ ENABLED HandleError)
    /\ pc = "t_except" => (exc # "none" /\ ENABLED T_HandleError)

C11_HandlerStep ==
    (exc # "none" /\ exc' # exc) =>
        /\ exc' = "none"
        /\ err_shown' = err_shown + 1
        /\ pc' \notin LoopPcs

C11_RaisedWhilePlaying == exc # "none" /\ PlaybackStarted

C11_Outcome ==
    /\ pc \notin LoopPcs
    /\ err_shown <= 1
    /\ exc = "none" => err_shown = 1
    /\ Ended => (err_shown = 1 /\ MusicStopped)

C11_ErrorHandled ==
    /\ [] C11_Caught
    /\ [][C11_HandlerStep]_vars
    /\ [] (C11_RaisedWhilePlaying => [] C11_Outcome)

\* Either program has ended after an error of a tick: displayed once, music
\* stopped.
C11_Witness ==
    /\ Ended
    /\ err_shown = 1
    /\ mixer_calls = <<"init", "load", "play", "stop", "quit">>
    /\ \/ pc = "exited" /\ "error" \in out
       \/ pc = "t_exited" /\ "error_on_screen" \in out

\* C12 as stated: when the unified visualizer ends after an error raised in
\* the render loop has been displayed, its exit status is not 0; the status
\* is 0 only after the end of playback or a quit request.
C12_ErrorExitNonZero ==
    pc = "exited" =>
        /\ ("error" \in out /\ err_shown >= 1) => exit_status # 0
        /\ exit_status = 0 => ("thanks" \in out /\ err_shown = 0)

\* C13 as stated: running becomes False only in an iteration whose event is
\* the key q, Q or Ctrl+C; an iteration whose get_event() returns None, any
\* other key or anything else leaves running as it was and stays in the
\* loop, so no other input ends the loop.
C13_OnlyQuitKeysEndLoop ==
    [][ /\ (InLoop /\ pc' = "loop" /\ running' # running) =>
              \E ev \in {KeyQ, KeyShiftQ, KeyCtrlC} : TickWith(ev)
        /\ \A ev \in {KeyQ, KeyShiftQ, KeyCtrlC} : TickWith(ev) => ~running'
        /\ \A ev \in Events \ {KeyQ, KeyShiftQ, KeyCtrlC} :
              TickWith(ev) => (pc' = "loop" /\ running' = running)
        /\ TickMouseEvent => (pc' = "loop" /\ running' = running) ]_vars

\* C14: the main thread of the threaded variant never waits for a queue: at
\* the drain of either queue and at the rest of the iteration it always has a
\* step, whatever the audio thread has done; when it finds a queue empty its
\* step goes on to the next part of the same iteration, raises nothing and
\* changes nothing else.
C14_Drain == pc \in {"t_beats", "t_amps"}

C14_AlwaysAStep ==
    /\ pc = "t_beats" => ENABLED T_DrainBeat
    /\ pc = "t_amps" => ENABLED T_DrainAmp
    /\ pc = "t_render" => ENABLED T_Render
    /\ C14_Drain => (exc = "none" /\ running)

C14_EmptyStep ==
    /\ (pc = "t_beats" /\ beat_queue = <<>> /\ pc' # pc) =>
          /\ pc' = "t_amps"
          /\ UNCHANGED <<exc, err_shown, out, beat_count, frame, running,
                         active_explosions, beat_queue>>
    /\ (pc = "t_amps" /\ amplitude_queue = <<>> /\ pc' # pc) =>
          /\ pc' = "t_render"
          /\ UNCHANGED <<exc, err_shown, out, beat_count, frame, running,
                         active_explosions, amplitude_queue>>

C14_NeverBlocks == [] C14_AlwaysAStep /\ [][C14_EmptyStep]_vars

\* An iteration has taken a beat, found both queues empty and reached the
\* rendering while the audio thread is in its loop.
C14_Witness ==
    /\ pc = "t_render"
    /\ beat_count >= 1
    /\ beat_queue = <<>>
    /\ amplitude_queue = <<>>
    /\ a_pc \in {"a_loop", "a_beats", "a_amp"}

\* C15 as stated: each of the two queues has a capacity, and the number of
\* its pending items never exceeds it.
C15_QueuesBounded ==
    /\ beat_queue # <<>> =>
          (QueueMaxsize > 0 /\ Len(beat_queue) <= QueueMaxsize)
    /\ amplitude_queue # <<>> =>
          (QueueMaxsize > 0 /\ Len(amplitude_queue) <= QueueMaxsize)

\* C16: an iteration fires a beat if and only if its current_time minus
\* last_beat_time is at least beat_interval (0.5 s in every mode); when it
\* fires, last_beat_time becomes that current_time and beat_count grows by
\* one; when it does not, both stay as they were.
C16_BeatFiring ==
    [][ TickStep =>
          /\ current_time' = now
          /\ beat_fired' = (current_time' - last_beat_time >= 60)
          /\ beat_fired' = (\E k \in 1 .. Len(tick_log') : tick_log'[k] = "beat")
          /\ IF current_time' - last_beat_time >= 60
             THEN /\ last_beat_time' = current_time'
                  /\ beat_count' = beat_count + 1
             ELSE /\ last_beat_time' = last_beat_time
                  /\ beat_count' = beat_count ]_vars

\* The first beat has fired one time unit late, 61 units after the start:
\* last_beat_time is the time of that poll, not the start plus 60.
C16_Witness ==
    /\ InLoop
    /\ beat_fired
    /\ beat_count = 1
    /\ last_beat_time = current_time
    /\ current_time - start_time = 61

\* The step is among those a tick has logged.
InLog(step, log) == \E k \in 1 .. Len(log) : log[k] = step

\* C17: an iteration fires a sub-beat if and only if the mode is not simple
\* and its current_time minus last_sub_beat is at least sub_beat_interval
\* (0.125 s in standard and insane mode); firing sets last_sub_beat to that
\* current_time, otherwise it stays; in simple mode last_sub_beat keeps its
\* initial value; an iteration that fires a sub-beat and no beat leaves
\* beat_count as it was and adds nothing to active_explosions.
C17_SimpleNeverFires ==
    (InLoop /\ mode = "simple") =>
        (last_sub_beat = start_time /\ ~InLog("sub_beat", tick_log))

C17_SubBeatStep ==
    TickStep =>
        /\ InLog("sub_beat", tick_log') =
              (mode # "simple" /\ current_time' - last_sub_beat >= 15)
        /\ last_sub_beat' =
              IF InLog("sub_beat", tick_log') THEN current_time' ELSE last_sub_beat
        /\ (InLog("sub_beat", tick_log') /\ ~beat_fired') =>
              /\ beat_count' = beat_count
              /\ active_explosions' = Sweep(active_explosions, frame)

C17_SubBeatFiring == [] C17_SimpleNeverFires /\ [][C17_SubBeatStep]_vars

\* A sub-beat has fired between two beats in standard mode, with
\* explosions of the first beat alive.
C17_Witness ==
    /\ InLoop
    /\ mode = "standard"
    /\ InLog("sub_beat", tick_log)
    /\ ~beat_fired
    /\ last_sub_beat = current_time
    /\ beat_count = 1
    /\ active_explosions # <<>>

\* C18: in standard and insane mode an iteration draws the text callout
\* exactly when it fires a beat whose new count is a multiple of 4, and runs
\* the flash pass exactly when it fires a beat whose new count is a multiple
\* of 2; in simple mode it does neither; an iteration without a beat does
\* neither.
C18_OverlayStep ==
    TickStep =>
        /\ InLog("text", tick_log') =
              (beat_fired' /\ mode \in {"standard", "insane"} /\ beat_count' % 4 = 0)
        /\ InLog("flash", tick_log') =
              (beat_fired' /\ mode \in {"standard", "insane"} /\ beat_count' % 2 = 0)

C18_OverlaysFollowBeatCount == [][C18_OverlayStep]_vars

\* The fourth beat of a run in insane mode: flash and text.
C18_Witness ==
    /\ InLoop
    /\ mode = "insane"
    /\ beat_fired
    /\ beat_count = 4
    /\ InLog("flash", tick_log)
    /\ InLog("text", tick_log)

\* C19 as stated: an iteration draws the BEAT! banner exactly when a beat
\* has fired so far (beat_count >= 1) and its current_time is less than 0.1 s
\* after the latest firing; so the iteration of a beat draws it, and no
\* iteration before the first beat does.
C19_BannerOnlyAfterBeat ==
    [][ TickStep =>
          InLog("banner", tick_log') =
              (beat_count' >= 1 /\ current_time' - last_beat_time' < 12) ]_vars

\* The steps of an iteration in the order of the loop body.
StepOrder ==
    << "clear", "beat", "spawn", "flash", "text", "sub_beat", "persistent", "sweep",
       "transient", "status", "banner", "refresh", "poll", "frame", "sleep" >>

\* The steps every iteration runs.
EveryTickSteps ==
    { "clear", "persistent", "sweep", "transient", "status", "refresh", "poll",
      "frame", "sleep" }

\* The place of each step in the order.
StepPos ==
    [st \in {StepOrder[k] : k \in 1 .. Len(StepOrder)} |->
        CHOOSE k \in 1 .. Len(StepOrder) : StepOrder[k] = st]

\* C20: the steps of every iteration run in the order clear, beat check and
\* spawn (with its overlays), sub-beat, persistent effects, expiry sweep,
\* live transient effects, status line, banner, refresh, quit poll, frame
\* increment, sleep; each runs at most once and the unconditional ones,
\* the refresh among them, exactly once; the transient effects updated are
\* those the sweep has kept, so none has frame - birth >= lifetime.
C20_TickStep ==
    TickStep =>
        /\ \A i \in 1 .. Len(tick_log') : tick_log'[i] \in DOMAIN StepPos
        /\ \A i \in 1 .. Len(tick_log') - 1 :
              StepPos[tick_log'[i]] < StepPos[tick_log'[i + 1]]
        /\ \A st \in EveryTickSteps : InLog(st, tick_log')
        /\ updated' = Entries(active_explosions')
        /\ \A e \in updated' : frame - e.birth < e.lifetime

C20_StepsInOrder == [][C20_TickStep]_vars

\* Simple mode, the iteration of frame 45: the third beat fires, the two
\* explosions of the first beat (born at frame 15, lifetime 30) are swept,
\* and the four of the second and third beat are updated.
C20_Witness ==
    /\ InLoop
    /\ mode = "simple"
    /\ frame = 46
    /\ beat_count = 3
    /\ Len(active_explosions) = 4
    /\ updated = { [birth |-> 30, lifetime |-> 30], [birth |-> 45, lifetime |-> 30] }
    /\ tick_log = << "clear", "beat", "spawn", "persistent", "sweep", "transient",
                     "status", "banner", "refresh", "poll", "frame", "sleep" >>

\* C21: create_fireworks returns min(int(3i)+1, 3) effects in simple mode,
\* min(int(6i)+2, 6) in standard mode and 2 * min(int(12i)+3, 12) in insane
\* mode, where each spawn point has two effects of distinct kinds; the count
\* is the one the loop appends from, it is at most 3, 6 and 24, and no smaller
\* intensity gives a larger count.
C21_FireworkCount ==
    pc = "fireworks_done" =>
        LET n == Len(explosions)
        IN  /\ mode = "simple" => (n = Min((intensity * 3) \div 1000 + 1, 3) /\ n <= 3)
            /\ mode = "standard" => (n = Min((intensity * 6) \div 1000 + 2, 6) /\ n <= 6)
            /\ mode = "insane" =>
                  /\ n = 2 * Min((intensity * 12) \div 1000 + 3, 12)
                  /\ n <= 24
                  /\ \A k \in 1 .. n \div 2 :
                        /\ explosions[2 * k - 1].point = k
                        /\ explosions[2 * k].point = k
                        /\ explosions[2 * k - 1].kind # explosions[2 * k].kind
            /\ n = CreateFireworksCount(intensity, mode)
            /\ \A j \in IntensityGrid :
                  j <= intensity => CreateFireworksCount(j, mode) <= n

\* Insane mode at intensity 1.0: twelve spawn points, two kinds each.
C21_Witness ==
    /\ pc = "fireworks_done"
    /\ mode = "insane"
    /\ intensity = 1000
    /\ Len(explosions) = 24
    /\ explosions[23].kind # explosions[24].kind

\* C22: active_explosions keeps insertion order: a step in the loop leaves
\* of the old list its surviving entries in their old order (the entries of
\* a run have one lifetime, so the survivors are the entries after the
\* expired oldest ones), followed by the entries born in this iteration.
C22_OrderStep ==
    (InLoop /\ pc' = "loop") =>
        \E k \in 0 .. Len(active_explosions) :
            LET kept == SubSeq(active_explosions, k + 1, Len(active_explosions))
            IN  /\ Len(active_explosions') >= Len(kept)
                /\ SubSeq(active_explosions', 1, Len(kept)) = kept
                /\ \A i \in 1 .. k : frame - active_explosions[i].birth
                                          >= active_explosions[i].lifetime
                /\ \A i \in Len(kept) + 1 .. Len(active_explosions') :
                      /\ active_explosions'[i].birth = frame
                      /\ beat_fired'

C22_InsertionOrder == [][C22_OrderStep]_vars

\* Simple mode after the second beat: the two explosions of the first beat
\* come before the two of the second.
C22_Witness ==
    /\ InLoop
    /\ mode = "simple"
    /\ beat_fired
    /\ beat_count = 2
    /\ active_explosions = << [birth |-> 15, lifetime |-> 30], [birth |-> 15, lifetime |-> 30],
                               [birth |-> 30, lifetime |-> 30], [birth |-> 30, lifetime |-> 30] >>

\* C23: the intensity used for spawning is within [0, 1]: the variable
\* intensity of either program in every state, and the intensity of every
\* beat event waiting on beat_queue.
C23_IntensityInRange ==
    /\ 0 <= intensity
    /\ intensity <= 1000
    /\ \A k \in 1 .. Len(beat_queue) :
          (0 <= beat_queue[k].intensity /\ beat_queue[k].intensity <= 1000)

\* The threaded variant has spawned from a beat whose RMS value times 5 is
\* above 1.
C23_Witness ==
    /\ pc = "t_beats"
    /\ beat_count >= 1
    /\ intensity = 1000
    /\ active_explosions # <<>>

\* C24 as stated: the loop of the working variant is left only when a quit
\* key has been seen or playback has ended; an iteration whose beat test
\* succeeds stays in the loop, counts the beat and leaves its fireworks in
\* active_explosions, the first beat included.
C24_LoopEndsOnlyOnQuitOrEnd ==
    [][ /\ (pc = "w_loop" /\ pc' # "w_loop") => (~running \/ ~busy)
        /\ ( /\ pc = "w_loop"
              /\ running
              /\ busy
              /\ now - last_beat_time >= 60
              /\ <<pc, loopVars>>' # <<pc, loopVars>> )
           => ( /\ pc' = "w_loop"
                /\ beat_count' = beat_count + 1
                /\ active_explosions' # <<>> ) ]_vars

\* C25: in every state of the unified visualizer current_scheme_idx equals
\* (beat_count div P) mod 4, where P is the period the code uses for the mode
\* (16 in simple mode, 8 otherwise): the index is a function of beat_count.
C25_SchemeIsFunctionOfBeatCount ==
    LET P == IF mode = "simple" THEN 16 ELSE 8
    IN  /\ P = RotationPeriod(mode)
        /\ current_scheme_idx = (beat_count \div P) % 4

\* Insane mode between the beats 24 and 25: the fourth scheme.
C25_Witness ==
    /\ InLoop
    /\ mode = "insane"
    /\ ~beat_fired
    /\ beat_count = 24
    /\ current_scheme_idx = 3

\* The time by which the beats are behind the wall clock: the time of the
\* latest firing minus beat_count intervals after the start of the loop.
C26_Shortfall == (last_beat_time - start_time) - beat_count * 60

\* C26: simulated beats never run ahead of the wall clock: at every tick
\* beat_count * beat_interval is at most the time since the start of the
\* loop; a firing comes at least one interval after the one before it, and
\* the time by which its poll is later than that adds to the shortfall,
\* which no iteration reduces.
C26_NotAhead ==
    InLoop =>
        /\ beat_count * 60 <= current_time - start_time
        /\ C26_Shortfall >= 0
        /\ last_beat_time <= current_time

C26_ShortfallStep ==
    TickStep =>
        /\ beat_count' # beat_count =>
              /\ last_beat_time' - last_beat_time >= 60
              /\ C26_Shortfall' = C26_Shortfall + (last_beat_time' - last_beat_time - 60)
        /\ beat_count' = beat_count => C26_Shortfall' = C26_Shortfall

C26_BeatsNeverAhead == [] C26_NotAhead /\ [][C26_ShortfallStep]_vars

\* The first beat fired one time unit late and the beats after it keep that
\* unit: the third beat is stamped 181 units after the start.
C26_Witness ==
    /\ InLoop
    /\ beat_fired
    /\ beat_count = 3
    /\ last_beat_time - start_time = 181

\* C27: an iteration that starts with max_explosions entries in
\* active_explosions (20, 40 or 100) drops every explosion its beat creates and
\* leaves the entries as they are: after it the list is the old list without
\* the entries the sweep has expired, and nothing born in this frame.
C27_FullListStep ==
    ( /\ TickStep
      /\ \/ mode = "simple" /\ Len(active_explosions) = 20
         \/ mode = "standard" /\ Len(active_explosions) = 40
         \/ mode = "insane" /\ Len(active_explosions) = 100 )
    => /\ active_explosions' =
             SelectSeq(active_explosions, LAMBDA e : frame - e.birth < e.lifetime)
       /\ \A k \in 1 .. Len(active_explosions') : active_explosions'[k].birth # frame

C27_FullListDropsNew == [][C27_FullListStep]_vars

\* Insane mode: the list was full when the third beat fired at frame 60, and
\* it holds the same hundred entries after it.
C27_Witness ==
    /\ InLoop
    /\ mode = "insane"
    /\ beat_fired
    /\ beat_count = 3
    /\ frame = 61
    /\ Len(active_explosions) = 100
    /\ \A k \in 1 .. Len(active_explosions) : active_explosions[k].birth \in {20, 40}

\* C28: under any interleaving of the two threads the audio thread enqueues
\* the onset indexes 0, 1, 2, ... each once and in increasing order (the
\* beat put next has index current_beat_index, below len(onset_times)), the
\* main thread takes them in that order, and beat_count is the number taken:
\* the events waiting carry the indexes beat_count, beat_count + 1, ...,
\* current_beat_index - 1, so beat_count never exceeds current_beat_index.
C28_QueueState ==
    /\ \A k \in 1 .. Len(beat_queue) : beat_queue[k].index = beat_count + k - 1
    /\ beat_count + Len(beat_queue) = current_beat_index
    /\ beat_count <= current_beat_index
    /\ current_beat_index <= Len(onset_times)

C28_QueueStep ==
    /\ Len(beat_queue') > Len(beat_queue) =>
          /\ current_beat_index < Len(onset_times)
          /\ current_beat_index' = current_beat_index + 1
          /\ Len(beat_queue') = Len(beat_queue) + 1
          /\ SubSeq(beat_queue', 1, Len(beat_queue)) = beat_queue
          /\ beat_queue'[Len(beat_queue')].index = current_beat_index
          /\ beat_count' = beat_count
    /\ current_beat_index' # current_beat_index => Len(beat_queue') > Len(beat_queue)
    /\ Len(beat_queue') < Len(beat_queue) =>
          /\ beat_queue[1].index = beat_count
          /\ beat_queue' = SubSeq(beat_queue, 2, Len(beat_queue))
          /\ beat_count' = beat_count + 1
          /\ current_beat_index' = current_beat_index
    /\ beat_count' # beat_count => Len(beat_queue') < Len(beat_queue)

C29_AgesStep ==
    TickStep =>
        /\ \A k \in 1 .. Len(active_explosions') :
              /\ 0 <= frame - active_explosions'[k].birth
              /\ frame - active_explosions'[k].birth < active_explosions'[k].lifetime
              /\ active_explosions'[k].lifetime > 0
              /\ active_explosions'[k].lifetime = (IF mode = "simple" THEN 30 ELSE 50)
        /\ \A k \in 1 .. Len(active_explosions') - 1 :
              active_explosions'[k].birth <= active_explosions'[k + 1].birth

C29_FrameStep ==
    (InLoop /\ pc' = "loop") =>
        \/ frame' = frame + 1 /\ now' > now /\ current_time' = now
        \/ frame' = frame /\ now' = now /\ UNCHANGED loopVars

C29_LiveAges == [][C29_AgesStep /\ C29_FrameStep]_vars

\* Simple mode, after the sweep of frame 44: the explosions born at frame 15
\* are in their last frame, before those born at frame 30.
C29_Witness ==
    /\ InLoop
    /\ mode = "simple"
    /\ frame = 45
    /\ Len(active_explosions) = 4
    /\ active_explosions[1].birth = 15
    /\ active_explosions[4].birth = 30

\* C30: an iteration in which no beat fires (less than beat_interval since
\* last_beat_time) leaves beat_count, last_beat_time, current_scheme_idx and
\* intensity as they were and appends nothing to active_explosions: the list
\* afterwards is the old one without its expired entries, so it is the same
\* or shorter.
C30_NoBeatStep ==
    (TickStep /\ now - last_beat_time < 60) =>
        /\ ~beat_fired'
        /\ beat_count' = beat_count
        /\ last_beat_time' = last_beat_time
        /\ current_scheme_idx' = current_scheme_idx
        /\ intensity' = intensity
        /\ active_explosions' =
              SelectSeq(active_explosions, LAMBDA e : frame - e.birth < e.lifetime)
        /\ Len(active_explosions') <= Len(active_explosions)
        /\ \A k \in 1 .. Len(active_explosions') : active_explosions'[k].birth < frame

C30_NoBeatNoChange == [][C30_NoBeatStep]_vars

\* Standard mode, the iteration of frame 70, between the third and the
\* fourth beat: the 18 explosions of the first beat expire and 22 are left.
C30_Witness ==
    /\ InLoop
    /\ mode = "standard"
    /\ frame = 71
    /\ ~beat_fired
    /\ beat_count = 3
    /\ Len(active_explosions) = 22
    /\ active_explosions[1].birth = 40

\* C31: every iteration of the render loop of the threaded variant
\* completes, whatever the audio thread does meanwhile: each of the two drain
\* loops ends (or the iteration raises), and the rest of the iteration, with
\* the refresh and the quit poll, is reached and done; at the poll a quit key
\* can be observed, which makes running False.
C31_QuitObservable ==
    pc = "t_render" => ENABLED (T_Render /\ ~running')

\* The parts of an iteration follow one another: the beat drain, the
\* amplitude drain, the rest; any of them may instead raise.
C31_PartsInOrder ==
    /\ pc = "t_beats" => pc' \in {"t_beats", "t_amps", "t_except"}
    /\ pc = "t_amps" => pc' \in {"t_amps", "t_render", "t_except"}
    /\ pc = "t_render" => pc' \in {"t_render", "t_loop", "t_except"}

C31_TickCompletes ==
    /\ [] C31_QuitObservable
    /\ [][C31_PartsInOrder]_vars
    /\ (pc \in {"t_beats", "t_amps", "t_render"}) ~> (pc \in {"t_loop", "t_except"})

\* The second iteration has taken beats while the audio thread was in its
\* loop, and its poll has seen the quit key.
C31_Witness ==
    /\ pc = "t_loop"
    /\ frame = 2
    /\ beat_count >= 2
    /\ ~running
    /\ a_pc \in {"a_loop", "a_beats", "a_amp"}

\* C32 as stated: under any interleaving of the two threads, when the main
\* thread of the threaded variant makes its cleanup call
\* pygame.mixer.music.stop() the audio thread has completed
\* pygame.mixer.init(): the call is made with the mixer initialised, raises
\* nothing and is recorded.
C32_StopOnlyAfterInit ==
    [][ (pc = "t_cleanup" /\ pc' # pc) =>
          /\ \E k \in 1 .. Len(mixer_calls) : mixer_calls[k] = "init"
          /\ a_pc \notin {"a_idle", "a_init"}
          /\ mixer_calls' = mixer_calls \o <<"stop", "quit">>
          /\ err_shown' = err_shown ]_vars

====
